---- MODULE Spec2Model ----
(***************************************************************************)
(* The example programs of cpp-init: the greeting function hello in its    *)
(* three variants (example: plain, example2: ILogger / g_logger, example3: *)
(* function pointer onLog), the logging slot and its sinks, the platform   *)
(* accessor, and main of the two example applications.                     *)
(*                                                                         *)
(* Strings are sequences of one-character strings, so that formatting and  *)
(* concatenation are computed, character by character, as the code does.   *)
(* Assumptions of the model: a write to an open stream succeeds and        *)
(* reaches the file (buffering is not modelled); argc >= 1, as a hosted    *)
(* environment passes it; the format strings given to fmt hold no braces   *)
(* besides their replacement fields.                                       *)
(***************************************************************************)
EXTENDS Integers, Sequences, FiniteSets, TLC

VARIABLES
    prog,             \* which program runs: "test1", "test2", "test3", "app2", "app3"
    nCalls,           \* operations the test program has performed so far
    last,             \* the most recent operation: its name, argument and result
    delivered,        \* the handler invocations the most recent operation made
    performed,        \* history: the names of the operations performed so far
    slotTrace,        \* history: "w" per write of the log slot, "r" per read by a log call
    onLog,            \* example3: Example::onLog
    g_lastLogMessage, \* example3 tests: the mock handler's static string
    g_logFile,        \* example3 app: the std::ofstream, "closed" | "open" | "failed"
    g_logger,         \* example2: Example::g_logger
    cpuCount,         \* example3: Example::Platform::cpuCount
    sm_impl,          \* example2: Platform::sm_impl
    g_platform,       \* example2: whether the optional<PlatformWin32> holds a value
    platformCall,     \* history: the most recent of Platform::initialize and finalize
    mocks,            \* example2: the MockPlatform objects, alive or not, and their field
    mockOverride,     \* history: the mock constructed last with no initialize, finalize,
                      \* construction or destruction since, and the value assigned to it
    out,              \* standard output, a sequence of characters
    disk,             \* the content of logfile.txt on disk
    disk0,            \* history: the content of logfile.txt when the program started
    hw,               \* what std::thread::hardware_concurrency() returns on this machine
    canOpen,          \* whether logfile.txt can be opened for writing
    g_checkHandler,   \* error handling: the handler a failing CHECK runs, or "null"
    m_sources,        \* error handling: the data loader's sources, what exists() and
                      \* load() of each yield for the file asked for
    frame,            \* error handling: the function being run, its inputs, its result
    deferers,         \* error handling: the Deferer objects alive in the running scope
    trace,            \* history: the effects of the function being run, in order
    depth,            \* error handling: how many nested calls are being executed
    threads,          \* the threads running beside main: where each is, and the
                      \* values of its local variables
    pc,               \* the applications' main: the statement to execute next
    argc,             \* main's argc
    argv,             \* main's argv, argv[0] at index 1
    exitCode          \* main's return value, -1 while it runs

vars == <<prog, nCalls, last, delivered, performed, slotTrace, onLog, g_lastLogMessage, g_logFile,
          g_logger, cpuCount, sm_impl, g_platform, platformCall, mocks, mockOverride,
          out, disk, disk0,
          hw, canOpen, g_checkHandler, m_sources, frame, deferers, trace, depth, threads,
          pc, argc, argv, exitCode>>

----
\* Bounds of the model.

\* Longest name given to hello.
MaxNameLen == 2
\* Operations a test program performs.
MaxCalls == 3
\* Largest argc main is started with.
MaxArgc == 3
\* Largest core count of the models' machines.
MaxCpus == 2

NameChars == {"T", "i"}

SeqsUpTo(S, n) == UNION {[1..k -> S] : k \in 0..n}

\* The names given to hello: the tests' "Tim", and every name of at most
\* MaxNameLen characters, the empty one included.
Names == SeqsUpTo(NameChars, MaxNameLen) \cup {<<"T","i","m">>}

\* What a client passes to a log call: the empty message, a one-line message,
\* and a message that holds a line break.
LogMessages == {<<>>, <<"m">>, <<"a","\n","b">>}
LogFiles == {<<"a",".","c">>}
LogLines == {7, 105}

\* The MockPlatform objects a test creates, the values it assigns to mockCpuCount,
\* and the numbers a call with undefined behaviour may return.
MockIds == {"mockA", "mockB"}
MockCounts == {2, 512}
UndefinedCounts == {0, 1}

NoMock == [alive |-> FALSE, mockCpuCount |-> 1]
NoOverride == [current |-> "none", assigned |-> -1]

----
\* Text.

Digits == <<"0", "1", "2", "3", "4", "5", "6", "7", "8", "9">>

\* fmt's rendering of a non-negative integer for "{}".
RECURSIVE ToDecimal(_)
ToDecimal(n) ==
    IF n < 10 THEN <<Digits[n + 1]>>
    ELSE ToDecimal(n \div 10) \o <<Digits[(n % 10) + 1]>>

\* The text `new` holds after the text `old`.
Suffix(new, old) == SubSeq(new, Len(old) + 1, Len(new))

\* The number of line breaks in a text.
RECURSIVE LineBreaks(_)
LineBreaks(s) ==
    IF s = <<>> THEN 0
    ELSE (IF Head(s) = "\n" THEN 1 ELSE 0) + LineBreaks(Tail(s))

HelloCalled == <<"E","x","a","m","p","l","e",":",":","h","e","l","l","o"," ","c","a","l","l","e","d">>
LogFilename == <<"l","o","g","f","i","l","e",".","t","x","t">>
\* __FILE__ and __LINE__ of the EXAMPLE_LOG in example3's hello.
HelloFile == <<"e","x","a","m","p","l","e","_","h","e","l","l","o",".","c","p","p">>
HelloLine == 9
ProgName == <<"e","x","a","m","p","l","e","_","a","p","p">>

----
\* hello: the string it returns.

\* hello with a comma after the word Hello.
hello1_Comma(name) ==
    IF name = <<>> THEN <<"H","e","l","l","o","!">>
    ELSE <<"H","e","l","l","o",","," ">> \o name \o <<"!">>

\* example (no logging)
hello1(name) ==
    IF name = <<>> THEN <<"H","e","l","l","o","!">>
    ELSE <<"H","e","l","l","o"," ">> \o name \o <<"!">>

\* hello without its test for the empty name.
hello2_NoEmptyCheck(name) == <<"H","e","l","l","o"," ">> \o name \o <<"!">>

\* hello that greets in lower case.
hello2_LowerCase(name) ==
    IF name = <<>> THEN <<"h","e","l","l","o","!">>
    ELSE <<"h","e","l","l","o"," ">> \o name \o <<"!">>

\* example2
hello2(name) ==
    IF name = <<>> THEN <<"H","e","l","l","o","!">>
    ELSE <<"H","e","l","l","o"," ">> \o name \o <<"!">>

\* hello without the space between the word Hello and the name.
hello3_NoSpace(name) ==
    IF name = <<>> THEN <<"H","e","l","l","o","!">>
    ELSE <<"H","e","l","l","o">> \o name \o <<"!">>

\* example3
hello3(name) ==
    IF name = <<>> THEN <<"H","e","l","l","o","!">>
    ELSE <<"H","e","l","l","o"," ">> \o name \o <<"!">>

----
\* example3: the log slot, its handlers and the EXAMPLE_LOG macro.

Delivery(h, message, file, line) ==
    [handler |-> h, message |-> message, file |-> file, line |-> line]

\* logToStdout with fmt::print in place of fmt::println: no line break.
logToStdout_Print(message, file, line) ==
    /\ out' = out \o <<"[">> \o file \o <<":">> \o ToDecimal(line) \o <<"]"," ">> \o message
    /\ UNCHANGED <<disk, g_lastLogMessage>>

\* fmt::println("[{}:{}] {}", file, line, message)
logToStdout(message, file, line) ==
    /\ out' = out \o <<"[">> \o file \o <<":">> \o ToDecimal(line) \o <<"]"," ">> \o message \o <<"\n">>
    /\ UNCHANGED <<disk, g_lastLogMessage>>

\* The tests' handler: g_lastLogMessage = message.
testHandler(message, file, line) ==
    /\ g_lastLogMessage' = message
    /\ UNCHANGED <<out, disk>>

\* The handler main installs:
\* g_logFile << fmt::format("[{}:{}] Example: {}\n", file, line, message).
\* A stream that is not open takes no output.
appHandler(message, file, line) ==
    /\ disk' = IF g_logFile = "open"
               THEN disk \o <<"[">> \o file \o <<":">> \o ToDecimal(line) \o <<"]"," ","E","x","a","m","p","l","e",":"," ">>
                         \o message \o <<"\n">>
               ELSE disk
    /\ UNCHANGED <<out, g_lastLogMessage>>

\* A call through the function pointer h.
CallOnLog(h, message, file, line) ==
    CASE h = "logToStdout" -> logToStdout(message, file, line)
      [] h = "testHandler" -> testHandler(message, file, line)
      [] h = "appHandler"  -> appHandler(message, file, line)

\* EXAMPLE_LOG falling back to logToStdout while no handler is installed.
EXAMPLE_LOG_DefaultStdout(message, file, line) ==
    LET h == IF onLog # "null" THEN onLog ELSE "logToStdout"
    IN  /\ CallOnLog(h, message, file, line)
        /\ delivered' = <<Delivery(h, message, file, line)>>
        /\ slotTrace' = slotTrace \o <<"r", "r">>

\* if (onLog) { onLog(fmt::format(...), __FILE__, __LINE__); }
EXAMPLE_LOG(message, file, line) ==
    IF onLog # "null"
    THEN /\ CallOnLog(onLog, message, file, line)
         /\ delivered' = <<Delivery(onLog, message, file, line)>>
         /\ slotTrace' = slotTrace \o <<"r", "r">>
    ELSE /\ delivered' = <<>>
         /\ slotTrace' = slotTrace \o <<"r">>
         /\ UNCHANGED <<out, disk, g_lastLogMessage>>

----
\* example2: the loggers.

NullLogger == [kind |-> "null", lastMessage |-> <<>>, m_filename |-> <<>>]

\* MockLogger::create, ConsoleLogger::create
MockLogger_create == [kind |-> "MockLogger", lastMessage |-> <<>>, m_filename |-> <<>>]
ConsoleLogger_create == [kind |-> "ConsoleLogger", lastMessage |-> <<>>, m_filename |-> <<>>]

\* FileLogger::create without its isValid test.
FileLogger_create_Unchecked(filename) ==
    [kind |-> "FileLogger", lastMessage |-> <<>>, m_filename |-> filename]

\* A create that gives up whatever the stream's state.
FileLogger_create_AlwaysNull(filename) == NullLogger

\* FileLogger::create: null when the stream the constructor opened is not valid.
FileLogger_create(filename) ==
    IF ~canOpen THEN NullLogger
    ELSE [kind |-> "FileLogger", lastMessage |-> <<>>, m_filename |-> filename]

\* An open that keeps what the file holds.
FileLogger_open_Append == disk' = disk

\* The constructor's std::ofstream(m_filename): opening truncates the file.
FileLogger_open == disk' = IF canOpen THEN <<>> ELSE disk

\* A FileLogger that rewrites the file with each message.
ILogger_log_Overwrite(message) ==
    CASE g_logger.kind = "MockLogger" ->
            /\ g_logger' = [g_logger EXCEPT !.lastMessage = message]
            /\ UNCHANGED <<out, disk>>
      [] g_logger.kind = "ConsoleLogger" ->
            /\ out' = out \o message \o <<"\n">>
            /\ UNCHANGED <<g_logger, disk>>
      [] g_logger.kind = "FileLogger" ->
            /\ disk' = message \o <<"\n">>
            /\ UNCHANGED <<g_logger, out>>

\* g_logger->log(message), by the dynamic type of *g_logger.
ILogger_log(message) ==
    CASE g_logger.kind = "MockLogger" ->
            /\ g_logger' = [g_logger EXCEPT !.lastMessage = message]
            /\ UNCHANGED <<out, disk>>
      [] g_logger.kind = "ConsoleLogger" ->
            /\ out' = out \o message \o <<"\n">>
            /\ UNCHANGED <<g_logger, disk>>
      [] g_logger.kind = "FileLogger" ->
            /\ disk' = disk \o message \o <<"\n">>
            /\ UNCHANGED <<g_logger, out>>

\* A log call that installs a ConsoleLogger when there is no logger.
LogIfLogger_LazyConsole(message) ==
    IF g_logger.kind # "null"
    THEN /\ ILogger_log(message)
         /\ delivered' = <<Delivery(g_logger.kind, message, <<>>, 0)>>
         /\ slotTrace' = slotTrace \o <<"r", "r">>
    ELSE /\ g_logger' = ConsoleLogger_create
         /\ out' = out \o message \o <<"\n">>
         /\ disk' = disk
         /\ delivered' = <<Delivery("ConsoleLogger", message, <<>>, 0)>>
         /\ slotTrace' = slotTrace \o <<"r", "w", "r">>

\* hello without its log call.
LogIfLogger_Never(message) ==
    /\ delivered' = <<>>
    /\ slotTrace' = slotTrace
    /\ UNCHANGED <<g_logger, out, disk>>

\* if (g_logger) { g_logger->log(message); }
LogIfLogger(message) ==
    IF g_logger.kind # "null"
    THEN /\ ILogger_log(message)
         /\ delivered' = <<Delivery(g_logger.kind, message, <<>>, 0)>>
         /\ slotTrace' = slotTrace \o <<"r", "r">>
    ELSE /\ delivered' = <<>>
         /\ slotTrace' = slotTrace \o <<"r">>
         /\ UNCHANGED <<g_logger, out, disk>>

----
\* The platform accessors.

\* example3: cpuCount(), through the function pointer.
cpuCountImpl == hw
cpuCountMock == 512
CallCpuCount == IF cpuCount = "cpuCountImpl" THEN cpuCountImpl ELSE cpuCountMock

\* initMock that leaves the accessor as it is.
initMock_NotInstalled == cpuCount' = cpuCount

\* example3: initMock()
initMock == cpuCount' = "mock"

\* example3: init(), deinit(); example2: PlatformWin32's constructor and destructor
InitializingText == <<"I","n","i","t","i","a","l","i","z","i","n","g"," ","P","l","a","t","f","o","r","m"," ","f","o","r"," ","W","i","n","3","2","\n">>
FinalizingText == <<"F","i","n","a","l","i","z","i","n","g"," ","P","l","a","t","f","o","r","m"," ","f","o","r"," ","W","i","n","3","2","\n">>

----
\* The record of an operation.

Op(op, name, ret, n, slot) ==
    [op |-> op, name |-> name, ret |-> ret, n |-> n, slot |-> slot,
     wroteOut |-> Suffix(out', out), wroteDisk |-> Suffix(disk', disk)]

\* The operation just performed, recorded.
Did(op, name, ret, n, slot) ==
    /\ last' = Op(op, name, ret, n, slot)
    /\ performed' = performed \cup {op}

NoOp == [op |-> "none", name |-> <<>>, ret |-> <<>>, n |-> 0, slot |-> "null",
         wroteOut |-> <<>>, wroteDisk |-> <<>>]

appVars == <<pc, argc, argv, exitCode>>
envVars == <<prog, hw, canOpen, disk0>>
runVars == <<depth, threads>>
ehVars == <<g_checkHandler, m_sources, frame, deferers, trace, runVars>>
platVars == <<sm_impl, g_platform, platformCall, mocks, mockOverride>>
ex2Vars == <<g_logger, platVars>>
ex3Vars == <<onLog, g_lastLogMessage, g_logFile, cpuCount>>

\* A test program performs one more operation, unless it has crashed.
Step == nCalls < MaxCalls /\ pc # "crashed" /\ nCalls' = nCalls + 1

----
\* Error handling: status codes, TRY, CHECK and DEFER.

\* enum StatusCode : u8
Ok == 0
UnknownError == 1
NotImplementedError == 2
InvalidArgumentError == 3
ReadError == 4
WriteError == 5
FormatError == 6
StatusCodes == {Ok, UnknownError, NotImplementedError, InvalidArgumentError, ReadError,
                WriteError, FormatError}

\* Status(StatusCode code) : code(code)
Status(code) == [code |-> code]

\* Status() = default, with StatusCode code = Ok
Status_default == [code |-> Ok]

\* A conversion as of a plain integer: nonzero is true.
Status_bool_AsInteger(status) == status.code # 0

\* explicit operator bool() const { return code == Ok; }
Status_bool(status) == status.code = Ok

\* What a function returns: nothing (void), a Status, or a string.
Ret(kind, code, text) == [kind |-> kind, code |-> code, text |-> text]
NoRet == Ret("none", -1, <<>>)
VoidRet == Ret("void", -1, <<>>)
StatusRet(status) == Ret("Status", status.code, <<>>)
StringRet(text) == Ret("string", -1, text)

\* What a statement does to the function around it: the effects it has, and
\* whether the function goes on with its next statement, returns ret, or is never
\* resumed because the program ended.
Continue == [next |-> "continue", events |-> <<>>, ret |-> NoRet]

\* The data loader's sources: for the file asked for, what exists() says and what
\* load() returns.
MaxSources == 2
Sources == [exists : BOOLEAN, load : StatusCodes]

\* DataLoader::load: the first source that has the file loads it; ReadError if none has.
RECURSIVE DataLoader_load(_)
DataLoader_load(sources) ==
    IF sources = <<>> THEN Status(ReadError)
    ELSE IF Head(sources).exists THEN Status(Head(sources).load)
    ELSE DataLoader_load(Tail(sources))

\* A TRY that bails with a status of its own.
TRY_UnknownError(status, logs) ==
    IF ~Status_bool(status)
    THEN [next |-> "return", events |-> IF logs THEN <<"ERROR">> ELSE <<>>,
          ret |-> StatusRet(Status(UnknownError))]
    ELSE Continue

\* A logging TRY that returns the status without an ERROR entry.
TRY_Silent(status, logs) ==
    IF ~Status_bool(status)
    THEN [next |-> "return", events |-> <<>>, ret |-> StatusRet(status)]
    ELSE Continue

\* TRY(expr): if (auto status = (expr); !status) { return status; }
\* The second form of the macro logs with ERROR before it returns.
TRY(status, logs) ==
    IF ~Status_bool(status)
    THEN [next |-> "return", events |-> IF logs THEN <<"ERROR">> ELSE <<>>,
          ret |-> StatusRet(status)]
    ELSE Continue

\* The handlers a program may configure: none, one that does nothing and returns
\* (or stops in a debugger and is resumed), one that terminates the application.
Handlers == {"null", "nothing", "terminate"}

\* A CHECK that runs the handler before it logs.
CHECK2_HandlerFirst(condition, ret) ==
    IF ~condition
    THEN LET handler == g_checkHandler
             events == (IF handler # "null" THEN <<"handler">> ELSE <<>>) \o <<"ERROR">>
         IN  IF handler = "terminate"
             THEN [next |-> "terminated", events |-> events, ret |-> NoRet]
             ELSE [next |-> "return", events |-> events, ret |-> ret]
    ELSE Continue

\* CHECK2(condition, ret): if (!(condition)) { ERROR(...); if (auto* handler =
\* g_checkHandler.load()) { handler(); } return ret; }
CHECK2(condition, ret) ==
    IF ~condition
    THEN LET handler == g_checkHandler
             events == <<"ERROR">> \o (IF handler # "null" THEN <<"handler">> ELSE <<>>)
         IN  IF handler = "terminate"
             THEN [next |-> "terminated", events |-> events, ret |-> NoRet]
             ELSE [next |-> "return", events |-> events, ret |-> ret]
    ELSE Continue

\* CHECK1(condition): the same with a plain return.
CHECK1(condition) == CHECK2(condition, VoidRet)

\* DEFER(code): a Deferer that holds code becomes the newest object of the scope.
DEFER(code) == deferers' = Append(deferers, code)

RECURSIVE Reverse(_)
Reverse(s) == IF s = <<>> THEN <<>> ELSE Append(Reverse(Tail(s)), Head(s))

\* A scope exit that destroys no Deferer, as if the code were not registered.
ScopeExit_Forgets == <<>>

\* Leaving the scope destroys its objects, the newest first; ~Deferer() runs
\* m_function().
ScopeExit == Reverse(deferers)

\* The nested calls of the README's log sample go as deep as AudioTrack::load,
\* DataLoader::load, DataLoaderSourceFilesystem::load.
MaxDepth == 3

\* The threads of a program beside its main thread: the one that runs into a
\* failing CHECK, and the ones that call the library concurrently.
ThreadsOf(p) ==
    CASE p = "race" -> {"checker"}
      [] p = "threads3" -> {"t1", "t2"}
      [] OTHER -> {}

\* A thread before it did anything: what it read from a slot and tested (seen),
\* what it called (called), the count a call of cpuCount gave it, and the name
\* it was given to greet.
NoThread == [pc |-> "idle", seen |-> "none", called |-> "none", count |-> -1, name |-> <<>>]

\* The function being run: its name, the form of its bailing statement, the value
\* of the condition or status that statement tests, the handler configured when it
\* was called, and what the function returned.
NoFrame == [fn |-> "none", form |-> "none", cond |-> TRUE, status |-> Status_default,
            handler |-> "null", ret |-> NoRet]

----
\* The initial state: static initialization done, main or the tests not yet started.

Progs == {"test1", "test2", "test3", "app2", "app3", "status", "audio", "check", "texture",
          "nested", "race", "threads3"}
Apps == {"app2", "app3"}

\* main's argv: the program's name, the name to greet, and further arguments.
ArgvOf(n, name) ==
    [i \in 1..n |-> IF i = 1 THEN ProgName ELSE IF i = 2 THEN name ELSE <<"x">>]

Init ==
    /\ prog \in Progs
    /\ nCalls = 0
    /\ last = NoOp
    /\ delivered = <<>>
    /\ performed = {}
    /\ slotTrace = <<>>
    /\ onLog = "null"
    /\ g_lastLogMessage = <<>>
    /\ g_logFile = "closed"
    /\ g_logger = NullLogger
    /\ cpuCount = "cpuCountImpl"
    /\ sm_impl = "null"
    /\ g_platform = FALSE
    /\ platformCall = "none"
    /\ mocks = [id \in MockIds |-> NoMock]
    /\ mockOverride = NoOverride
    /\ out = <<>>
    /\ disk \in (IF prog \in {"test2"} \cup Apps THEN {<<>>, <<"o","l","d","\n">>} ELSE {<<>>})
    /\ disk0 = disk
    /\ hw \in (IF prog \in {"test2", "test3"} \cup Apps THEN (0..MaxCpus) \cup {512} ELSE {0})
    /\ canOpen \in (IF prog \in {"test2"} \cup Apps THEN BOOLEAN ELSE {TRUE})
    /\ g_checkHandler = "null"
    /\ m_sources = <<>>
    /\ frame = NoFrame
    /\ deferers = <<>>
    /\ trace = <<>>
    /\ depth = 0
    /\ threads = [t \in ThreadsOf(prog) |-> NoThread]
    /\ pc = "start"
    /\ argc \in (IF prog \in Apps THEN 1..MaxArgc ELSE {1})
    /\ argv \in {ArgvOf(argc, name) : name \in (IF prog \in Apps THEN Names ELSE {<<>>})}
    /\ exitCode = -1

----
\* example: the tests.

Test1_Hello(name) ==
    /\ prog = "test1" /\ Step
    /\ delivered' = <<>>
    /\ UNCHANGED <<slotTrace, out, disk, appVars, envVars, ehVars, ex2Vars, ex3Vars>>
    /\ Did("hello", name, hello1(name), 0, "none")

----
\* example3: the tests and what a client of the library may do.

Test3_Hello(name) ==
    /\ prog = "test3" /\ Step
    /\ EXAMPLE_LOG(HelloCalled, HelloFile, HelloLine)
    /\ UNCHANGED <<onLog, g_logFile, cpuCount, appVars, envVars, ehVars, ex2Vars>>
    /\ Did("hello", name, hello3(name), 0, onLog)

\* onLog = h
Test3_SetOnLog(h) ==
    /\ prog = "test3" /\ Step
    /\ onLog' = h
    /\ slotTrace' = slotTrace \o <<"w">>
    /\ delivered' = <<>>
    /\ UNCHANGED <<g_lastLogMessage, g_logFile, cpuCount, out, disk, appVars, envVars, ehVars, ex2Vars>>
    /\ Did("setOnLog", <<>>, <<>>, 0, onLog)

\* EXAMPLE_LOG at a place of the client's
Test3_Log(message, file, line) ==
    /\ prog = "test3" /\ Step
    /\ EXAMPLE_LOG(message, file, line)
    /\ UNCHANGED <<onLog, g_logFile, cpuCount, appVars, envVars, ehVars, ex2Vars>>
    /\ Did("log", <<>>, <<>>, 0, onLog)

Test3_InitMock ==
    /\ prog = "test3" /\ Step
    /\ initMock
    /\ delivered' = <<>>
    /\ UNCHANGED <<slotTrace, onLog, g_lastLogMessage, g_logFile, out, disk, appVars, envVars, ehVars, ex2Vars>>
    /\ Did("initMock", <<>>, <<>>, 0, onLog)

Test3_CpuCount ==
    /\ prog = "test3" /\ Step
    /\ delivered' = <<>>
    /\ UNCHANGED <<slotTrace, out, disk, appVars, envVars, ehVars, ex2Vars, ex3Vars>>
    /\ Did("cpuCount", <<>>, <<>>, CallCpuCount, onLog)

\* init that puts the real implementation back into the slot.
Test3_Init_Resets ==
    /\ prog = "test3" /\ Step
    /\ out' = out \o InitializingText
    /\ cpuCount' = "cpuCountImpl"
    /\ delivered' = <<>>
    /\ UNCHANGED <<slotTrace, disk, appVars, envVars, ehVars, ex2Vars, onLog,
                   g_lastLogMessage, g_logFile>>
    /\ Did("init", <<>>, <<>>, 0, onLog)

\* Platform::init()
Test3_Init ==
    /\ prog = "test3" /\ Step
    /\ out' = out \o InitializingText
    /\ delivered' = <<>>
    /\ UNCHANGED <<slotTrace, disk, appVars, envVars, ehVars, ex2Vars, ex3Vars>>
    /\ Did("init", <<>>, <<>>, 0, onLog)

\* deinit that also clears the function pointer.
Test3_Deinit_ClearsSlot ==
    /\ prog = "test3" /\ Step
    /\ out' = out \o FinalizingText
    /\ cpuCount' = "null"
    /\ delivered' = <<>>
    /\ UNCHANGED <<slotTrace, disk, appVars, envVars, ehVars, ex2Vars, onLog, g_lastLogMessage,
                   g_logFile>>
    /\ Did("deinit", <<>>, <<>>, 0, onLog)

\* Platform::deinit()
Test3_Deinit ==
    /\ prog = "test3" /\ Step
    /\ out' = out \o FinalizingText
    /\ delivered' = <<>>
    /\ UNCHANGED <<slotTrace, disk, appVars, envVars, ehVars, ex2Vars, ex3Vars>>
    /\ Did("deinit", <<>>, <<>>, 0, onLog)

----
\* example2: the tests and what a client of the library may do.

Test2_Hello(name) ==
    /\ prog = "test2" /\ Step
    /\ LogIfLogger(HelloCalled)
    /\ UNCHANGED <<platVars, appVars, envVars, ehVars, ex3Vars>>
    /\ Did("hello", name, hello2(name), 0, g_logger.kind)

\* MockLogger::initialize(): g_logger = create()
Test2_MockLoggerInitialize ==
    /\ prog = "test2" /\ Step
    /\ g_logger' = MockLogger_create
    /\ slotTrace' = slotTrace \o <<"w">>
    /\ delivered' = <<>>
    /\ UNCHANGED <<platVars, out, disk, appVars, envVars, ehVars, ex3Vars>>
    /\ Did("setLogger", <<>>, <<>>, 0, g_logger.kind)

\* g_logger = ConsoleLogger::create()
Test2_ConsoleLogger ==
    /\ prog = "test2" /\ Step
    /\ g_logger' = ConsoleLogger_create
    /\ slotTrace' = slotTrace \o <<"w">>
    /\ delivered' = <<>>
    /\ UNCHANGED <<platVars, out, disk, appVars, envVars, ehVars, ex3Vars>>
    /\ Did("setLogger", <<>>, <<>>, 0, g_logger.kind)

\* g_logger = FileLogger::create("logfile.txt"), while no other stream holds the file
Test2_FileLogger ==
    /\ prog = "test2" /\ Step
    /\ g_logger.kind # "FileLogger"
    /\ FileLogger_open
    /\ g_logger' = FileLogger_create(LogFilename)
    /\ slotTrace' = slotTrace \o <<"w">>
    /\ delivered' = <<>>
    /\ UNCHANGED <<platVars, out, appVars, envVars, ehVars, ex3Vars>>
    /\ Did("setLogger", LogFilename, <<>>, 0, g_logger.kind)

\* g_logger->log(message) at a place of the client's
Test2_Log(message) ==
    /\ prog = "test2" /\ Step
    /\ LogIfLogger(message)
    /\ UNCHANGED <<platVars, appVars, envVars, ehVars, ex3Vars>>
    /\ Did("log", <<>>, <<>>, 0, g_logger.kind)

----
\* example2: Platform::initialize and Platform::finalize.

\* sm_impl = &g_platform.emplace(): emplace destroys the value the optional holds,
\* if any, and constructs the new one.
Platform_initialize ==
    /\ out' = out \o (IF g_platform THEN FinalizingText ELSE <<>>) \o InitializingText
    /\ g_platform' = TRUE
    /\ sm_impl' = "g_platform"

\* sm_impl = nullptr; g_platform.reset()
\* finalize that clears the pointer but leaves the instance alive.
Platform_finalize_NoReset ==
    /\ out' = out
    /\ g_platform' = g_platform
    /\ sm_impl' = "null"

Platform_finalize ==
    /\ out' = out \o (IF g_platform THEN FinalizingText ELSE <<>>)
    /\ g_platform' = FALSE
    /\ sm_impl' = "null"

\* PlatformWin32::cpuCount
PlatformWin32_cpuCount == hw

\* A MockPlatform that does not install itself.
MockPlatform_ctor_NotInstalled(id) ==
    /\ mocks' = [mocks EXCEPT ![id] = [alive |-> TRUE, mockCpuCount |-> 1]]
    /\ sm_impl' = sm_impl

\* MockPlatform(): Platform::sm_impl = this; the field starts as 1.
MockPlatform_ctor(id) ==
    /\ mocks' = [mocks EXCEPT ![id] = [alive |-> TRUE, mockCpuCount |-> 1]]
    /\ sm_impl' = id

\* A destructor that leaves sm_impl as it is.
MockPlatform_dtor_KeepsPointer(id) ==
    /\ mocks' = [mocks EXCEPT ![id] = NoMock]
    /\ sm_impl' = sm_impl

\* A destructor that puts the initialized platform back.
MockPlatform_dtor_Restores(id) ==
    /\ mocks' = [mocks EXCEPT ![id] = NoMock]
    /\ sm_impl' = IF g_platform THEN "g_platform" ELSE "null"

\* ~MockPlatform(): Platform::sm_impl = nullptr
MockPlatform_dtor(id) ==
    /\ mocks' = [mocks EXCEPT ![id] = NoMock]
    /\ sm_impl' = "null"

\* MockPlatform::cpuCount
MockPlatform_cpuCount(id) == mocks[id].mockCpuCount

\* Whether *sm_impl is an object: the pointer is not null and what it points to lives.
PlatformValid ==
    \/ sm_impl = "g_platform" /\ g_platform
    \/ sm_impl \in MockIds /\ mocks[sm_impl].alive

\* Platform::get().cpuCount(), by the dynamic type of *sm_impl.
Platform_get_cpuCount ==
    IF sm_impl = "g_platform" THEN PlatformWin32_cpuCount ELSE MockPlatform_cpuCount(sm_impl)

----
\* example2: the platform in the tests.

\* Platform::initialize()
Test2_Initialize ==
    /\ prog = "test2" /\ Step
    /\ Platform_initialize
    /\ platformCall' = "initialize"
    /\ mockOverride' = NoOverride
    /\ delivered' = <<>>
    /\ UNCHANGED <<slotTrace, g_logger, mocks, disk, appVars, envVars, ehVars, ex3Vars>>
    /\ Did("initialize", <<>>, <<>>, 0, g_logger.kind)

\* Platform::finalize()
Test2_Finalize ==
    /\ prog = "test2" /\ Step
    /\ Platform_finalize
    /\ platformCall' = "finalize"
    /\ mockOverride' = NoOverride
    /\ delivered' = <<>>
    /\ UNCHANGED <<slotTrace, g_logger, mocks, disk, appVars, envVars, ehVars, ex3Vars>>
    /\ Did("finalize", <<>>, <<>>, 0, g_logger.kind)

\* MockPlatform id comes to life.
Test2_MockPlatform(id) ==
    /\ prog = "test2" /\ Step
    /\ ~mocks[id].alive
    /\ MockPlatform_ctor(id)
    /\ mockOverride' = [current |-> id, assigned |-> -1]
    /\ delivered' = <<>>
    /\ UNCHANGED <<slotTrace, g_logger, g_platform, platformCall, out, disk,
                   appVars, envVars, ehVars, ex3Vars>>
    /\ Did("mockCtor", <<id>>, <<>>, 0, g_logger.kind)

\* MockPlatform id goes out of scope or is deleted.
Test2_MockPlatformDestroy(id) ==
    /\ prog = "test2" /\ Step
    /\ mocks[id].alive
    /\ MockPlatform_dtor(id)
    /\ mockOverride' = NoOverride
    /\ delivered' = <<>>
    /\ UNCHANGED <<slotTrace, g_logger, g_platform, platformCall, out, disk,
                   appVars, envVars, ehVars, ex3Vars>>
    /\ Did("mockDtor", <<id>>, <<>>, 0, g_logger.kind)

\* mock.mockCpuCount = v
Test2_SetMockCpuCount(id, v) ==
    /\ prog = "test2" /\ Step
    /\ mocks[id].alive
    /\ mocks' = [mocks EXCEPT ![id].mockCpuCount = v]
    /\ mockOverride' = IF mockOverride.current = id
                       THEN [mockOverride EXCEPT !.assigned = v] ELSE mockOverride
    /\ delivered' = <<>>
    /\ UNCHANGED <<slotTrace, g_logger, sm_impl, g_platform, platformCall, out, disk,
                   appVars, envVars, ehVars, ex3Vars>>
    /\ Did("setMockCpuCount", <<id>>, <<>>, v, g_logger.kind)

\* Platform::get().cpuCount() while sm_impl points to an object
Test2_CpuCount ==
    /\ prog = "test2" /\ Step
    /\ PlatformValid
    /\ delivered' = <<>>
    /\ UNCHANGED <<slotTrace, out, disk, appVars, envVars, ehVars, ex2Vars, ex3Vars>>
    /\ Did("cpuCount", <<>>, <<>>, Platform_get_cpuCount, g_logger.kind)

\* Platform::get().cpuCount() while sm_impl is null: the call through the null
\* reference is undefined; it may crash the program or return any number.
Test2_CpuCountUndefined ==
    /\ prog = "test2" /\ Step
    /\ ~PlatformValid
    /\ delivered' = <<>>
    /\ \E crash \in BOOLEAN, n \in UndefinedCounts :
          /\ pc' = IF crash THEN "crashed" ELSE pc
          /\ UNCHANGED <<slotTrace, out, disk, argc, argv, exitCode, envVars, ehVars, ex2Vars, ex3Vars>>
          /\ Did("cpuCountUndefined", <<>>, <<>>, IF crash THEN 0 ELSE n, g_logger.kind)

----
\* example3: main.

Running(p, at) == prog = p /\ pc = at /\ exitCode = -1

Return(code) == pc' = "done" /\ exitCode' = code

\* The argument check as argc < 2.
UsageError3_TooFew(n) == n < 2

\* argc != 2
UsageError3(n) == n # 2

\* Example::Platform::init()
Main3_Init ==
    /\ Running("app3", "start")
    /\ out' = out \o InitializingText
    /\ pc' = "logger"
    /\ delivered' = <<>>
    /\ UNCHANGED <<nCalls, slotTrace, disk, argc, argv, exitCode, envVars, ehVars, ex2Vars, ex3Vars>>
    /\ Did("init", <<>>, <<>>, 0, onLog)

\* main installing the handler before it tests the stream.
Main3_SetUpLogger_EarlyInstall ==
    /\ prog = "app3" /\ pc = "logger" /\ exitCode = -1
    /\ onLog' = "appHandler"
    /\ slotTrace' = slotTrace \o <<"w">>
    /\ IF canOpen
       THEN /\ g_logFile' = "open"
            /\ disk' = <<>>
            /\ pc' = "args"
            /\ UNCHANGED <<out, exitCode>>
       ELSE /\ g_logFile' = "failed"
            /\ out' = out \o <<"C","o","u","l","d"," ","n","o","t"," ","c","r","e","a","t","e"," ","l","o","g"," ","f","i","l","e","\n">>
            /\ pc' = "done" /\ exitCode' = 1
            /\ UNCHANGED disk
    /\ delivered' = <<>>
    /\ UNCHANGED <<nCalls, g_lastLogMessage, cpuCount, argc, argv, prog, hw, canOpen,
                   disk0, g_logger, sm_impl, g_platform, platformCall, mocks,
                   mockOverride, ehVars>>
    /\ last' = [op |-> "setUpLogger", name |-> <<>>, ret |-> <<>>, n |-> 0, slot |-> onLog,
                wroteOut |-> Suffix(out', out), wroteDisk |-> Suffix(disk', disk)]
    /\ performed' = performed \cup {"setUpLogger"}

\* g_logFile = std::ofstream("logfile.txt"); on failure report and return 1,
\* otherwise onLog = the handler that writes to g_logFile.
Main3_SetUpLogger ==
    /\ Running("app3", "logger")
    /\ IF canOpen
       THEN /\ g_logFile' = "open"
            /\ disk' = <<>>
            /\ onLog' = "appHandler"
            /\ slotTrace' = slotTrace \o <<"w">>
            /\ pc' = "args"
            /\ UNCHANGED <<out, exitCode>>
       ELSE /\ g_logFile' = "failed"
            /\ out' = out \o <<"C","o","u","l","d"," ","n","o","t"," ","c","r","e","a","t","e"," ","l","o","g"," ","f","i","l","e","\n">>
            /\ Return(1)
            /\ UNCHANGED <<disk, onLog, slotTrace>>
    /\ delivered' = <<>>
    /\ UNCHANGED <<nCalls, g_lastLogMessage, cpuCount, argc, argv, envVars, ehVars, ex2Vars>>
    /\ Did("setUpLogger", <<>>, <<>>, 0, onLog)

\* if (argc != 2) { fmt::println("usage: {} <name>\n", argv[0]); return 1; }
Main3_CheckArgs ==
    /\ Running("app3", "args")
    /\ IF UsageError3(argc)
       THEN /\ out' = out \o <<"u","s","a","g","e",":"," ">> \o argv[1] \o <<" ","<","n","a","m","e",">","\n","\n">>
            /\ Return(1)
       ELSE /\ pc' = "hello"
            /\ UNCHANGED <<out, exitCode>>
    /\ delivered' = <<>>
    /\ UNCHANGED <<nCalls, slotTrace, disk, argc, argv, envVars, ehVars, ex2Vars, ex3Vars>>
    /\ Did("checkArgs", <<>>, <<>>, 0, onLog)

\* Example::hello(argv[1])
Main3_Hello ==
    /\ Running("app3", "hello")
    /\ EXAMPLE_LOG(HelloCalled, HelloFile, HelloLine)
    /\ pc' = "print"
    /\ UNCHANGED <<nCalls, onLog, g_logFile, cpuCount, argc, argv, exitCode, envVars, ehVars, ex2Vars>>
    /\ Did("hello", argv[2], hello3(argv[2]), 0, onLog)

\* fmt::println("{}", <the greeting>)
Main3_Print ==
    /\ Running("app3", "print")
    /\ out' = out \o last.ret \o <<"\n">>
    /\ pc' = "cpu"
    /\ delivered' = <<>>
    /\ UNCHANGED <<nCalls, slotTrace, disk, argc, argv, exitCode, envVars, ehVars, ex2Vars, ex3Vars>>
    /\ Did("print", <<>>, <<>>, 0, onLog)

\* fmt::println("We are running on {} CPUs.", Example::Platform::cpuCount())
Main3_CpuCount ==
    /\ Running("app3", "cpu")
    /\ out' = out \o <<"W","e"," ","a","r","e"," ","r","u","n","n","i","n","g"," ","o","n"," ">> \o ToDecimal(CallCpuCount) \o <<" ","C","P","U","s",".","\n">>
    /\ pc' = "deinit"
    /\ delivered' = <<>>
    /\ UNCHANGED <<nCalls, slotTrace, disk, argc, argv, exitCode, envVars, ehVars, ex2Vars, ex3Vars>>
    /\ Did("cpuCount", <<>>, <<>>, CallCpuCount, onLog)

\* main returning 0 after the CPU line, without the call of deinit.
Main3_Deinit_Skipped ==
    /\ Running("app3", "deinit")
    /\ out' = out
    /\ Return(0)
    /\ delivered' = <<>>
    /\ UNCHANGED <<nCalls, slotTrace, disk, argc, argv, envVars, ehVars, ex2Vars, ex3Vars>>
    /\ Did("deinit", <<>>, <<>>, 0, onLog)

\* Example::Platform::deinit(); return 0;
Main3_Deinit ==
    /\ Running("app3", "deinit")
    /\ out' = out \o FinalizingText
    /\ Return(0)
    /\ delivered' = <<>>
    /\ UNCHANGED <<nCalls, slotTrace, disk, argc, argv, envVars, ehVars, ex2Vars, ex3Vars>>
    /\ Did("deinit", <<>>, <<>>, 0, onLog)

----
\* example2: main.

\* argc != 2
UsageError2(n) == n # 2

\* Example::Platform::initialize()
Main2_Initialize ==
    /\ Running("app2", "start")
    /\ Platform_initialize
    /\ platformCall' = "initialize"
    /\ pc' = "logger"
    /\ delivered' = <<>>
    /\ mockOverride' = NoOverride
    /\ UNCHANGED <<nCalls, slotTrace, g_logger, mocks, disk, argc, argv, exitCode, envVars, ehVars, ex3Vars>>
    /\ Did("initialize", <<>>, <<>>, 0, g_logger.kind)

\* g_logger = FileLogger::create(logFilename); if it is null report and return 1.
Main2_SetUpLogger ==
    /\ Running("app2", "logger")
    /\ FileLogger_open
    /\ g_logger' = FileLogger_create(LogFilename)
    /\ slotTrace' = slotTrace \o <<"w">>
    /\ IF g_logger'.kind = "null"
       THEN /\ out' = out \o <<"C","o","u","l","d"," ","n","o","t"," ","c","r","e","a","t","e"," ","l","o","g"," ","f","i","l","e",":"," ">> \o LogFilename \o <<"\n">>
            /\ Return(1)
       ELSE /\ pc' = "args"
            /\ UNCHANGED <<out, exitCode>>
    /\ delivered' = <<>>
    /\ UNCHANGED <<nCalls, platVars, argc, argv, envVars, ehVars, ex3Vars>>
    /\ Did("setUpLogger", <<>>, <<>>, 0, g_logger.kind)

\* if (argc != 2) { fmt::print("usage: {} <name>\n\n", argv[0]); return 1; }
Main2_CheckArgs ==
    /\ Running("app2", "args")
    /\ IF UsageError2(argc)
       THEN /\ out' = out \o <<"u","s","a","g","e",":"," ">> \o argv[1] \o <<" ","<","n","a","m","e",">","\n","\n">>
            /\ Return(1)
       ELSE /\ pc' = "hello"
            /\ UNCHANGED <<out, exitCode>>
    /\ delivered' = <<>>
    /\ UNCHANGED <<nCalls, slotTrace, disk, argc, argv, envVars, ehVars, ex2Vars, ex3Vars>>
    /\ Did("checkArgs", <<>>, <<>>, 0, g_logger.kind)

\* Example::hello(argv[1])
Main2_Hello ==
    /\ Running("app2", "hello")
    /\ LogIfLogger(HelloCalled)
    /\ pc' = "print"
    /\ UNCHANGED <<nCalls, platVars, argc, argv, exitCode, envVars, ehVars, ex3Vars>>
    /\ Did("hello", argv[2], hello2(argv[2]), 0, g_logger.kind)

\* fmt::print("{}\n", <the greeting>)
Main2_Print ==
    /\ Running("app2", "print")
    /\ out' = out \o last.ret \o <<"\n">>
    /\ pc' = "cpu"
    /\ delivered' = <<>>
    /\ UNCHANGED <<nCalls, slotTrace, disk, argc, argv, exitCode, envVars, ehVars, ex2Vars, ex3Vars>>
    /\ Did("print", <<>>, <<>>, 0, g_logger.kind)

\* fmt::print("We are running on {} CPUs.\n", Example::Platform::get().cpuCount())
Main2_CpuCount ==
    /\ Running("app2", "cpu")
    /\ sm_impl = "g_platform"
    /\ out' = out \o <<"W","e"," ","a","r","e"," ","r","u","n","n","i","n","g"," ","o","n"," ">> \o ToDecimal(PlatformWin32_cpuCount) \o <<" ","C","P","U","s",".","\n">>
    /\ pc' = "finalize"
    /\ delivered' = <<>>
    /\ UNCHANGED <<nCalls, slotTrace, disk, argc, argv, exitCode, envVars, ehVars, ex2Vars, ex3Vars>>
    /\ Did("cpuCount", <<>>, <<>>, PlatformWin32_cpuCount, g_logger.kind)

\* Example::Platform::finalize(); return 0;
Main2_Finalize ==
    /\ Running("app2", "finalize")
    /\ Platform_finalize
    /\ platformCall' = "finalize"
    /\ Return(0)
    /\ delivered' = <<>>
    /\ mockOverride' = NoOverride
    /\ UNCHANGED <<nCalls, slotTrace, g_logger, mocks, disk, argc, argv, envVars, ehVars, ex3Vars>>
    /\ Did("finalize", <<>>, <<>>, 0, g_logger.kind)

----
----
\* Error handling: the functions of the README and their callers.

exampleVars == <<last, delivered, performed, slotTrace, out, disk, argc, argv, exitCode,
                 envVars, ex2Vars, ex3Vars>>

\* A Status is made, by default or from a code, and tested: if (status) ...
Status_Test(form, code) ==
    /\ prog = "status"
    /\ LET status == IF form = "default" THEN Status_default ELSE Status(code)
       IN  frame' = [NoFrame EXCEPT !.fn = "Status", !.form = form, !.status = status,
                                    !.cond = Status_bool(status)]
    /\ UNCHANGED <<exampleVars, runVars, nCalls, pc, g_checkHandler, m_sources, deferers, trace>>

\* A client calls AudioTrack::load, written with the if statement or with one of
\* the two TRY macros, while the data loader has the given sources.
Audio_Call ==
    /\ prog = "audio" /\ pc = "start"
    /\ \E sources \in SeqsUpTo(Sources, MaxSources), form \in {"if", "TRY", "TRY_log"} :
          /\ m_sources' = sources
          /\ frame' = [NoFrame EXCEPT !.fn = "AudioTrack::load", !.form = form]
    /\ pc' = "load"
    /\ UNCHANGED <<exampleVars, runVars, nCalls, g_checkHandler, deferers, trace>>

\* TRY(g_dataLoader.load(buffer, std::string(identifier) + ".opus"))
Audio_Load ==
    /\ prog = "audio" /\ pc = "load"
    /\ LET status == DataLoader_load(m_sources)
           stmt == TRY(status, frame.form = "TRY_log")
       IN  /\ frame' = [frame EXCEPT !.status = status, !.ret = stmt.ret]
           /\ trace' = trace \o stmt.events
                             \o (IF stmt.next = "return" THEN <<"return">> ELSE <<>>)
           /\ pc' = IF stmt.next = "return" THEN "returned" ELSE "use"
    /\ UNCHANGED <<exampleVars, runVars, nCalls, g_checkHandler, m_sources, deferers>>

\* // Use audio track data loaded into buffer.   return Ok;
Audio_Use ==
    /\ prog = "audio" /\ pc = "use"
    /\ trace' = trace \o <<"use", "return">>
    /\ frame' = [frame EXCEPT !.ret = StatusRet(Status(Ok))]
    /\ pc' = "returned"
    /\ UNCHANGED <<exampleVars, runVars, nCalls, g_checkHandler, m_sources, deferers>>

\* g_checkHandler.store(h): at initialization, or swapped between two calls.
SetCheckHandler(h) ==
    /\ prog \in {"check", "texture"} /\ pc \in {"start", "returned"}
    /\ g_checkHandler' = h
    /\ UNCHANGED <<exampleVars, runVars, nCalls, pc, m_sources, frame, deferers, trace>>

\* The functions of the CHECK examples, the form of CHECK each uses and the value
\* it gives to return.
CheckFns == {"playEffect", "createTexture", "toIdentifier"}
CheckForm(fn) == IF fn = "playEffect" THEN "CHECK1" ELSE "CHECK2"
Given(fn) ==
    CASE fn = "playEffect" -> VoidRet
      [] fn = "createTexture" -> StatusRet(Status(InvalidArgumentError))
      [] fn = "toIdentifier" -> StringRet(<<>>)

\* What the statements after the CHECK may return.
RestRets(fn) ==
    CASE fn = "playEffect" -> {VoidRet}
      [] fn = "createTexture" -> {StatusRet(Status(c)) : c \in {Ok, InvalidArgumentError}}
      [] fn = "toIdentifier" -> {StringRet(<<>>), StringRet(<<"i","d">>)}

\* A client calls one of the functions; cond is what the CHECK's condition yields.
Check_Call(fn, cond) ==
    /\ prog = "check" /\ pc \in {"start", "returned"} /\ Step
    /\ frame' = [NoFrame EXCEPT !.fn = fn, !.form = CheckForm(fn), !.cond = cond,
                                !.handler = g_checkHandler]
    /\ trace' = <<>>
    /\ pc' = "check"
    /\ UNCHANGED <<exampleVars, runVars, g_checkHandler, m_sources, deferers>>

\* CHECK(condition) or CHECK(condition, ret) at the start of the function
Check_CHECK ==
    /\ prog = "check" /\ pc = "check"
    /\ LET stmt == IF frame.form = "CHECK1" THEN CHECK1(frame.cond)
                   ELSE CHECK2(frame.cond, Given(frame.fn))
       IN  /\ frame' = [frame EXCEPT !.ret = stmt.ret]
           /\ trace' = trace \o stmt.events
                             \o (IF stmt.next = "return" THEN <<"return">> ELSE <<>>)
           /\ pc' = CASE stmt.next = "return" -> "returned"
                      [] stmt.next = "terminated" -> "terminated"
                      [] stmt.next = "continue" -> "rest"
    /\ UNCHANGED <<exampleVars, runVars, nCalls, g_checkHandler, m_sources, deferers>>

\* // … : the statements after the CHECK, to the function's end
Check_Rest ==
    /\ prog = "check" /\ pc = "rest"
    /\ \E ret \in RestRets(frame.fn) : frame' = [frame EXCEPT !.ret = ret]
    /\ trace' = trace \o <<"rest", "return">>
    /\ pc' = "returned"
    /\ UNCHANGED <<exampleVars, runVars, nCalls, g_checkHandler, m_sources, deferers>>

\* u8* data = texture->map();
Tex_Map ==
    /\ prog = "texture" /\ pc = "start"
    /\ frame' = [NoFrame EXCEPT !.fn = "texture", !.handler = g_checkHandler]
    /\ trace' = trace \o <<"map">>
    /\ pc' = "mapped"
    /\ UNCHANGED <<exampleVars, runVars, nCalls, g_checkHandler, m_sources, deferers>>

\* DEFER(texture->unmap());
Tex_Defer ==
    /\ prog = "texture" /\ pc = "mapped"
    /\ DEFER("unmap")
    /\ pc' = "body"
    /\ UNCHANGED <<exampleVars, runVars, nCalls, g_checkHandler, m_sources, frame, trace>>

\* // … : the work on the mapped data; it decides what the bailing statement that
\* follows will test. That statement is CHECK(success) in the example; the other
\* forms, CHECK(success, ret) and TRY(expr), leave the scope in the same way.
Tex_Body(form, success, code) ==
    /\ prog = "texture" /\ pc = "body"
    /\ frame' = [frame EXCEPT !.form = form, !.cond = success, !.status = Status(code)]
    /\ trace' = trace \o <<"body">>
    /\ pc' = "check"
    /\ UNCHANGED <<exampleVars, runVars, nCalls, g_checkHandler, m_sources, deferers>>

\* CHECK(success); a return leaves the scope, and so destroys its Deferer.
Tex_Check ==
    /\ prog = "texture" /\ pc = "check"
    /\ LET stmt == CASE frame.form = "CHECK1" -> CHECK1(frame.cond)
                     [] frame.form = "CHECK2" ->
                            CHECK2(frame.cond, StatusRet(Status(UnknownError)))
                     [] frame.form = "TRY" -> TRY(frame.status, FALSE)
       IN  /\ frame' = [frame EXCEPT !.ret = stmt.ret]
           /\ CASE stmt.next = "return" ->
                      /\ trace' = trace \o stmt.events \o ScopeExit \o <<"return">>
                      /\ deferers' = <<>>
                      /\ pc' = "returned"
                [] stmt.next = "terminated" ->
                      /\ trace' = trace \o stmt.events
                      /\ deferers' = deferers
                      /\ pc' = "terminated"
                [] stmt.next = "continue" ->
                      /\ trace' = trace \o stmt.events
                      /\ deferers' = deferers
                      /\ pc' = "end"
    /\ UNCHANGED <<exampleVars, runVars, nCalls, g_checkHandler, m_sources>>

\* The end of the scope is reached.
Tex_End ==
    /\ prog = "texture" /\ pc = "end"
    /\ trace' = trace \o ScopeExit \o <<"return">>
    /\ deferers' = <<>>
    /\ frame' = [frame EXCEPT !.ret = IF frame.form = "CHECK1" THEN VoidRet
                                      ELSE StatusRet(Status(Ok))]
    /\ pc' = "returned"
    /\ UNCHANGED <<exampleVars, runVars, nCalls, g_checkHandler, m_sources>>

\* Logging directly, with the logging TRY, through nested calls: the function at
\* level 1 is the one the client calls (AudioTrack::load), each function calls
\* the next inside a TRY, the deepest one is where a status is instantiated
\* (DataLoaderSourceFilesystem::load).  An entry of the log names the level of
\* the function that wrote it, whether it was written where the error was
\* instantiated or by a TRY, and the status code it prints.
LogEntry(level, what, code) == [at |-> level, what |-> what, code |-> code]

\* TRY(callee(...)): the function at the current level, or the client, calls one
\* level deeper.
Nested_Call ==
    /\ prog = "nested" /\ pc \in {"start", "calling"}
    /\ depth < MaxDepth
    /\ depth' = depth + 1
    /\ pc' = "calling"
    /\ frame' = [NoFrame EXCEPT !.fn = "nested", !.form = "TRY_log"]
    /\ UNCHANGED <<exampleVars, threads, nCalls, g_checkHandler, m_sources, deferers, trace>>

\* The deepest function instantiates its status and returns it: "Whenever an
\* error value is instantiated ... I will immediately log an error message."
Nested_Origin(code) ==
    /\ prog = "nested" /\ pc = "calling"
    /\ trace' = IF code # Ok THEN Append(trace, LogEntry(depth, "origin", code)) ELSE trace
    /\ frame' = [frame EXCEPT !.status = Status(code), !.ret = StatusRet(Status(code))]
    /\ depth' = depth - 1
    /\ pc' = IF depth' = 0 THEN "returned" ELSE "returning"
    /\ UNCHANGED <<exampleVars, threads, nCalls, g_checkHandler, m_sources, deferers>>

\* The callee has returned frame.status into the TRY of the function at the
\* current level: the TRY logs and returns it, or the rest of the function runs
\* and returns Ok.
Nested_TRY ==
    /\ prog = "nested" /\ pc = "returning"
    /\ LET stmt == TRY(frame.status, TRUE)
           ret == IF stmt.next = "return" THEN stmt.ret ELSE StatusRet(Status(Ok))
       IN  /\ trace' = trace \o [i \in DOMAIN stmt.events |->
                                    LogEntry(depth, "TRY", frame.status.code)]
           /\ frame' = [frame EXCEPT !.status = Status(ret.code), !.ret = ret]
    /\ depth' = depth - 1
    /\ pc' = IF depth' = 0 THEN "returned" ELSE "returning"
    /\ UNCHANGED <<exampleVars, threads, nCalls, g_checkHandler, m_sources, deferers>>

\* A failing CHECK on one thread while another thread stores to g_checkHandler.
\* The steps of the macro are the ones between which the other thread can act:
\*   if (!(condition)) { ERROR(...);
\*       if (auto* handler = ::g_checkHandler.load()) { handler(); }
\*       return ret; }

\* A call that reads the atomic a second time instead of using the local.
CheckedHandler_Reload(handler) == g_checkHandler

\* handler(): the function called is the value of the local variable.
CheckedHandler(handler) == handler

\* g_checkHandler.store(h) on another thread, at any moment.
Race_Store(h) ==
    /\ prog = "race"
    /\ Step
    /\ g_checkHandler' = h
    /\ UNCHANGED <<exampleVars, runVars, pc, m_sources, frame, deferers, trace>>

\* if (!(condition)) with a false condition: ERROR("%s", "Check failed: " #condition)
Race_Fail ==
    /\ prog = "race" /\ pc = "start" /\ threads["checker"].pc = "idle"
    /\ trace' = Append(trace, "ERROR")
    /\ threads' = [threads EXCEPT !["checker"].pc = "logged"]
    /\ UNCHANGED <<exampleVars, depth, nCalls, pc, g_checkHandler, m_sources, frame, deferers>>

\* auto* handler = ::g_checkHandler.load(): one atomic read into a local.
Race_Load ==
    /\ prog = "race" /\ pc = "start" /\ threads["checker"].pc = "logged"
    /\ threads' = [threads EXCEPT !["checker"].pc = "loaded",
                                  !["checker"].seen = g_checkHandler]
    /\ UNCHANGED <<exampleVars, depth, nCalls, pc, g_checkHandler, m_sources, frame, deferers,
                   trace>>

\* if (handler) { handler(); }: a handler that terminates does not return.
Race_Run ==
    /\ prog = "race" /\ pc = "start" /\ threads["checker"].pc = "loaded"
    /\ LET handler == threads["checker"].seen
           callee == CheckedHandler(handler)
       IN  IF handler = "null"
           THEN /\ threads' = [threads EXCEPT !["checker"].pc = "return"]
                /\ UNCHANGED trace
           ELSE /\ trace' = Append(trace, callee)
                /\ threads' = [threads EXCEPT
                       !["checker"].called = callee,
                       !["checker"].pc = IF callee = "nothing" THEN "return" ELSE "stopped"]
    /\ UNCHANGED <<exampleVars, depth, nCalls, pc, g_checkHandler, m_sources, frame, deferers>>

\* return ret;
Race_Return ==
    /\ prog = "race" /\ pc = "start" /\ threads["checker"].pc = "return"
    /\ trace' = Append(trace, "return")
    /\ threads' = [threads EXCEPT !["checker"].pc = "returned"]
    /\ UNCHANGED <<exampleVars, depth, nCalls, pc, g_checkHandler, m_sources, frame, deferers>>

\* example3 called from several threads.  "All such components should be set up
\* at program start, by the main thread, in a well defined order": the main
\* thread writes the slots, then starts the threads, which call hello and
\* cpuCount; the two reads of onLog in EXAMPLE_LOG are two steps.  The handler
\* installed is the one the library provides, or none.

\* The main thread writing the slots while the other threads run as well.
MainMayWrite_Anytime == pc \in {"start", "running"}

\* The main thread writes the slots at program start only.
MainMayWrite == pc = "start"

\* onLog = h; and, in a test, initMock()
Mt_Setup(h, mock) ==
    /\ prog = "threads3" /\ MainMayWrite
    /\ Cardinality({i \in DOMAIN slotTrace : slotTrace[i] = "w"}) < MaxCalls
    /\ onLog' = h
    /\ slotTrace' = slotTrace \o <<"w">>
    /\ IF mock THEN initMock ELSE cpuCount' = cpuCount
    /\ delivered' = <<>>
    /\ UNCHANGED <<out, disk, appVars, envVars, ex2Vars, g_lastLogMessage, g_logFile, ehVars,
                   nCalls>>
    /\ Did("setOnLog", <<>>, <<>>, 0, onLog)

\* The main thread starts the other threads.
Mt_Start ==
    /\ prog = "threads3" /\ pc = "start"
    /\ pc' = "running"
    /\ UNCHANGED <<exampleVars, runVars, nCalls, g_checkHandler, m_sources, frame, deferers,
                   trace>>

\* hello(name) on thread t, up to the test of EXAMPLE_LOG: if (::Example::onLog).
\* With no handler in the slot the macro is done and hello returns its greeting.
Mt_HelloCheck(t, name) ==
    /\ prog = "threads3" /\ pc = "running" /\ threads[t].pc = "idle"
    /\ Step
    /\ slotTrace' = slotTrace \o <<"r">>
    /\ threads' = [threads EXCEPT ![t].seen = onLog, ![t].name = name,
                                  ![t].pc = IF onLog # "null" THEN "call" ELSE "idle"]
    /\ UNCHANGED <<out, disk, argc, argv, exitCode, envVars, ex2Vars, ex3Vars, depth, pc,
                   g_checkHandler, m_sources, frame, deferers, trace>>
    /\ IF onLog # "null"
       THEN UNCHANGED <<delivered, last, performed>>
       ELSE /\ delivered' = <<>>
            /\ Did("hello", name, hello3(name), 0, onLog)

\* hello(name) on thread t, the rest: ::Example::onLog(fmt::format(...), __FILE__,
\* __LINE__) reads the slot again and calls what it holds, and hello returns its
\* greeting.  A call through a null pointer is undefined, and crashes where it
\* does not happen to go unnoticed.
Mt_HelloCall(t) ==
    /\ prog = "threads3" /\ pc = "running" /\ threads[t].pc = "call"
    /\ threads' = [threads EXCEPT ![t].called = onLog, ![t].pc = "idle"]
    /\ slotTrace' = slotTrace \o <<"r">>
    /\ UNCHANGED <<argc, argv, exitCode, envVars, ex2Vars, onLog, g_logFile, cpuCount, depth,
                   nCalls, g_checkHandler, m_sources, frame, deferers, trace>>
    /\ IF onLog # "null"
       THEN /\ CallOnLog(onLog, HelloCalled, HelloFile, HelloLine)
            /\ delivered' = <<Delivery(onLog, HelloCalled, HelloFile, HelloLine)>>
            /\ pc' = pc
            /\ Did("hello", threads[t].name, hello3(threads[t].name), 0, onLog)
       ELSE /\ pc' \in {pc, "crashed"}
            /\ UNCHANGED <<delivered, out, disk, g_lastLogMessage, last, performed>>

\* cpuCount() on thread t, through the function pointer.
Mt_CpuCount(t) ==
    /\ prog = "threads3" /\ pc = "running" /\ threads[t].pc = "idle"
    /\ Step
    /\ threads' = [threads EXCEPT ![t].count = CallCpuCount]
    /\ delivered' = <<>>
    /\ UNCHANGED <<slotTrace, out, disk, argc, argv, exitCode, envVars, ex2Vars, ex3Vars, depth,
                   pc, g_checkHandler, m_sources, frame, deferers, trace>>
    /\ Did("cpuCount", <<>>, <<>>, CallCpuCount, onLog)

\* The main thread joins the other threads once they are done with their calls.
Mt_Join ==
    /\ prog = "threads3" /\ pc = "running"
    /\ \A t \in DOMAIN threads : threads[t].pc = "idle"
    /\ pc' = "joined"
    /\ UNCHANGED <<exampleVars, runVars, nCalls, g_checkHandler, m_sources, frame, deferers,
                   trace>>

Next ==
    \/ \E name \in Names : Test1_Hello(name)
    \/ \E name \in Names : Test3_Hello(name)
    \/ \E h \in {"logToStdout", "testHandler"} : Test3_SetOnLog(h)
    \/ \E m \in LogMessages, f \in LogFiles, l \in LogLines : Test3_Log(m, f, l)
    \/ Test3_InitMock
    \/ Test3_CpuCount
    \/ Test3_Init
    \/ Test3_Deinit
    \/ \E name \in Names : Test2_Hello(name)
    \/ Test2_MockLoggerInitialize
    \/ Test2_ConsoleLogger
    \/ Test2_FileLogger
    \/ \E m \in LogMessages : Test2_Log(m)
    \/ Test2_Initialize
    \/ Test2_Finalize
    \/ \E id \in MockIds : Test2_MockPlatform(id)
    \/ \E id \in MockIds : Test2_MockPlatformDestroy(id)
    \/ \E id \in MockIds, v \in MockCounts : Test2_SetMockCpuCount(id, v)
    \/ Test2_CpuCount
    \/ Test2_CpuCountUndefined
    \/ Main3_Init
    \/ Main3_SetUpLogger
    \/ Main3_CheckArgs
    \/ Main3_Hello
    \/ Main3_Print
    \/ Main3_CpuCount
    \/ Main3_Deinit
    \/ Main2_Initialize
    \/ Main2_SetUpLogger
    \/ Main2_CheckArgs
    \/ Main2_Hello
    \/ Main2_Print
    \/ Main2_CpuCount
    \/ Main2_Finalize
    \/ \E form \in {"default", "code"}, code \in StatusCodes : Status_Test(form, code)
    \/ Audio_Call
    \/ Audio_Load
    \/ Audio_Use
    \/ \E h \in Handlers : SetCheckHandler(h)
    \/ \E fn \in CheckFns, cond \in BOOLEAN : Check_Call(fn, cond)
    \/ Check_CHECK
    \/ Check_Rest
    \/ Tex_Map
    \/ Tex_Defer
    \/ \E form \in {"CHECK1", "CHECK2", "TRY"}, success \in BOOLEAN, code \in {Ok, ReadError} :
          Tex_Body(form, success, code)
    \/ Tex_Check
    \/ Tex_End

    \/ Nested_Call
    \/ \E code \in StatusCodes : Nested_Origin(code)
    \/ Nested_TRY
    \/ \E h \in Handlers : Race_Store(h)
    \/ Race_Fail
    \/ Race_Load
    \/ Race_Run
    \/ Race_Return
    \/ \E h \in {"null", "logToStdout"}, mock \in BOOLEAN : Mt_Setup(h, mock)
    \/ Mt_Start
    \/ \E t \in {"t1", "t2"}, name \in {<<>>, <<"T","i","m">>} : Mt_HelloCheck(t, name)
    \/ \E t \in {"t1", "t2"} : Mt_HelloCall(t)
    \/ \E t \in {"t1", "t2"} : Mt_CpuCount(t)
    \/ Mt_Join

Spec == Init /\ [][Next]_vars

----
\* Helpers of the properties.

IsInfix(p, s) == \E i \in 0..(Len(s) - Len(p)) : SubSeq(s, i + 1, i + Len(p)) = p

EndsWith(s, p) == Len(p) <= Len(s) /\ SubSeq(s, Len(s) - Len(p) + 1, Len(s)) = p

Count(s, x) == Cardinality({i \in DOMAIN s : s[i] = x})

\* The slot of the log handler holds a handler.
IsPrefix(p, s) == Len(p) <= Len(s) /\ SubSeq(s, 1, Len(p)) = p

\* How often p occurs in s.
Occurrences(p, s) ==
    Cardinality({i \in 0..(Len(s) - Len(p)) : SubSeq(s, i + 1, i + Len(p)) = p})

\* example2: the PlatformWin32 objects alive, counted by what the constructor and
\* the destructor printed.
PlatformInstances == Occurrences(InitializingText, out) - Occurrences(FinalizingText, out)

Installed(slot) == slot \notin {"null", "none"}

\* The sinks that produce output: standard output and the log file.
OutSinks == {"logToStdout", "ConsoleLogger"}
DiskSinks == {"appHandler", "FileLogger"}

\* What the most recent operation appended to the sink of delivery d.
Written(d) ==
    IF d.handler \in OutSinks THEN last.wroteOut ELSE last.wroteDisk

\* What each sink puts in front of the message.
SinkPrefix(d) ==
    CASE d.handler = "logToStdout" -> <<"[">> \o d.file \o <<":">> \o ToDecimal(d.line) \o <<"]"," ">>
      [] d.handler = "appHandler"  -> <<"[">> \o d.file \o <<":">> \o ToDecimal(d.line) \o <<"]"," ","E","x","a","m","p","l","e",":"," ">>
      [] OTHER -> <<>>

----
\* C1: for every non-empty name n, hello(n) returns exactly "Hello " followed by n
\* followed by "!", whether or not a log handler is installed.
C1_HelloWithName ==
    (last.op = "hello" /\ last.name # <<>>) =>
        last.ret = <<"H","e","l","l","o"," ">> \o last.name \o <<"!">>

\* hello("Tim") has returned "Hello Tim!" with a handler installed, which it called.
C1_Witness ==
    /\ last.op = "hello" /\ last.name = <<"T","i","m">> /\ last.ret = <<"H","e","l","l","o"," ","T","i","m","!">>
    /\ Installed(last.slot) /\ delivered # <<>>

\* C2: hello called with the empty name returns exactly "Hello!", whether or not a
\* log handler is installed.
C2_HelloWithoutName ==
    (last.op = "hello" /\ last.name = <<>>) => last.ret = <<"H","e","l","l","o","!">>

\* hello("") has returned "Hello!" with the mock logger installed (the tests'
\* "hello logging").
C2_Witness ==
    /\ last.op = "hello" /\ last.name = <<>> /\ last.ret = <<"H","e","l","l","o","!">>
    /\ last.slot = "MockLogger" /\ delivered # <<>>

\* C3 as stated: for a non-empty name the greeting is "Hello, {name}!", with a comma
\* after the word Hello.
C3_HelloComma ==
    (last.op = "hello" /\ last.name # <<>>) =>
        last.ret = <<"H","e","l","l","o",","," ">> \o last.name \o <<"!">>

\* C3, amended: for a non-empty name the greeting is the word Hello, one space (no
\* comma), the name, then an exclamation mark.
C3_HelloNoComma ==
    (last.op = "hello" /\ last.name # <<>>) =>
        /\ Len(last.ret) = Len(last.name) + 7
        /\ SubSeq(last.ret, 1, 5) = <<"H","e","l","l","o">>
        /\ last.ret[6] = " "
        /\ SubSeq(last.ret, 7, Len(last.ret) - 1) = last.name
        /\ last.ret[Len(last.ret)] = "!"

\* An application is about to print the greeting "Hello Tim!" of its argument "Tim".
C3_Witness ==
    /\ prog \in Apps /\ pc = "print"
    /\ argv[2] = <<"T","i","m">> /\ last.op = "hello" /\ last.ret = <<"H","e","l","l","o"," ","T","i","m","!">>

\* C4: with a log handler installed (onLog in example3, g_logger in example2), every
\* call of hello, for any name including the empty one, invokes that handler once,
\* with a non-empty message, before it returns; the tests' handlers then hold that
\* message.
C4_HelloLogs ==
    (last.op = "hello" /\ Installed(last.slot)) =>
        /\ Len(delivered) = 1
        /\ delivered[1].handler = last.slot
        /\ delivered[1].message # <<>>
        /\ (last.slot = "testHandler" => g_lastLogMessage = delivered[1].message)
        /\ (last.slot = "MockLogger" => g_logger.lastMessage = delivered[1].message)

\* example3's test "hello logging": the handler set, hello("") called, and the
\* handler's string is not empty.
C4_Witness ==
    /\ prog = "test3" /\ last.op = "hello" /\ last.name = <<>>
    /\ last.slot = "testHandler" /\ g_lastLogMessage = HelloCalled

\* C5: the log slot is null at program start and stays null until it is written; a
\* call of hello that finds it null invokes no handler and writes nothing to
\* standard output or to the log file, and returns its greeting.
C5_NoHandlerNoOutput ==
    /\ Count(slotTrace, "w") = 0 => (onLog = "null" /\ g_logger.kind = "null")
    /\ (last.op = "hello" /\ last.slot = "null") =>
          /\ delivered = <<>>
          /\ last.wroteOut = <<>>
          /\ last.wroteDisk = <<>>
          /\ onLog = "null" /\ g_logger.kind = "null"
          /\ last.ret = (IF last.name = <<>> THEN <<"H","e","l","l","o","!">>
                         ELSE <<"H","e","l","l","o"," ">> \o last.name \o <<"!">>)

\* hello("Tim") was called in example3 before any handler was set.
C5_Witness ==
    /\ prog = "test3" /\ Count(slotTrace, "w") = 0
    /\ last.op = "hello" /\ last.slot = "null" /\ last.ret = <<"H","e","l","l","o"," ","T","i","m","!">>
    /\ out = <<>>

\* C6: once Platform::initMock() has run, Platform::cpuCount() returns exactly 512.
C6_MockCpuCount ==
    (prog = "test3" /\ "initMock" \in performed /\ last.op = "cpuCount") => last.n = 512

\* initMock() ran, then init(), then cpuCount() returned 512 on a machine that
\* does not have 512 cores.
C6_Witness ==
    /\ prog = "test3" /\ {"initMock", "init"} \subseteq performed
    /\ last.op = "cpuCount" /\ last.n = 512 /\ hw # 512

\* C7: main returns 0 exactly when argc = 2 and the log file could be created, and
\* 1 in every other case; until then it has a next statement to execute.
C7_ExitCode ==
    prog \in Apps =>
        /\ pc = "done" => exitCode = (IF argc = 2 /\ canOpen THEN 0 ELSE 1)
        /\ pc # "done" => (exitCode = -1 /\ ENABLED Next)

\* main has returned 0.
C7_Witness ==
    prog \in Apps /\ pc = "done" /\ exitCode = 0 /\ argc = 2 /\ canOpen

\* C8 as stated: every message delivered to the log file or to standard output
\* produces exactly one line, of the form "[file:line] message" (taken for the
\* messages that hold no line break themselves).
C8_LineFormat ==
    \A i \in DOMAIN delivered :
        (/\ delivered[i].handler \in OutSinks \cup DiskSinks
         /\ LineBreaks(delivered[i].message) = 0) =>
            /\ Written(delivered[i]) =
                   <<"[">> \o delivered[i].file \o <<":">> \o ToDecimal(delivered[i].line)
                       \o <<"]"," ">> \o delivered[i].message \o <<"\n">>
            /\ LineBreaks(Written(delivered[i])) = 1

\* C8, amended: every message delivered to the log file or to standard output
\* appends the sink's prefix, the message and one line break, so one line for a
\* message that holds no line break; the prefix is "[file:line] " for logToStdout,
\* "[file:line] Example: " for the handler of example3's main, and empty for
\* example2's FileLogger and ConsoleLogger.
C8_SinkLines ==
    \A i \in DOMAIN delivered :
        delivered[i].handler \in OutSinks \cup DiskSinks =>
            /\ Written(delivered[i]) =
                   SinkPrefix(delivered[i]) \o delivered[i].message \o <<"\n">>
            /\ LineBreaks(Written(delivered[i])) = LineBreaks(delivered[i].message) + 1
            /\ (delivered[i].handler \in OutSinks) => last.wroteDisk = <<>>
            /\ (delivered[i].handler \in DiskSinks) => last.wroteOut = <<>>

\* example3's main: hello's message has reached the log file.
C8_Witness ==
    /\ prog = "app3" /\ delivered # <<>> /\ delivered[1].handler = "appHandler"
    /\ disk = <<"[","e","x","a","m","p","l","e","_","h","e","l","l","o",".","c","p","p",":","9","]"," ","E","x","a","m","p","l","e",":"," ","E","x","a","m","p","l","e",":",":","h","e","l","l","o"," ","c","a","l","l","e","d","\n">>

\* C9 as stated: when the log file cannot be opened, main prints a usage message
\* and returns a nonzero exit code.
C9_UsageOnLogFileError ==
    (prog \in Apps /\ pc = "done" /\ ~canOpen) =>
        (IsInfix(<<"u","s","a","g","e",":"," ">>, out) /\ exitCode # 0)

\* C9, amended: when the log file cannot be opened, main prints "Could not create
\* log file" (example2 adds ": logfile.txt"), prints no usage message whatever
\* argc is, and returns 1.
C9_ErrorOnLogFileError ==
    (prog \in Apps /\ pc = "done" /\ ~canOpen) =>
        /\ exitCode = 1
        /\ ~IsInfix(<<"u","s","a","g","e",":"," ">>, out)
        /\ EndsWith(out, IF prog = "app3" THEN <<"C","o","u","l","d"," ","n","o","t"," ","c","r","e","a","t","e"," ","l","o","g"," ","f","i","l","e","\n">>
                         ELSE <<"C","o","u","l","d"," ","n","o","t"," ","c","r","e","a","t","e"," ","l","o","g"," ","f","i","l","e",":"," ","l","o","g","f","i","l","e",".","t","x","t","\n">>)

\* example2's main has returned after the log file could not be opened, started
\* with a wrong number of arguments as well.
C9_Witness ==
    prog = "app2" /\ pc = "done" /\ ~canOpen /\ argc # 2 /\ exitCode = 1

\* C10 as stated: in every execution of an application the log slot is written
\* exactly once, before the first log call reads it.
C10_WrittenExactlyOnce ==
    (prog \in Apps /\ pc = "done") =>
        /\ Count(slotTrace, "w") = 1
        /\ slotTrace[1] = "w"

\* C10, amended: in every execution of an application the log slot is written at
\* most once, by main during startup and before any log call reads it: exactly
\* once in example2, and in example3 exactly when the log file could be created
\* (otherwise main returns before the write and the slot stays null); hello is
\* called only after the write.
C10_WrittenAtMostOnce ==
    prog \in Apps =>
        /\ Count(slotTrace, "w") <= 1
        /\ slotTrace # <<>> => slotTrace[1] = "w"
        /\ pc = "done" => (Count(slotTrace, "w") = 1 <=> (prog = "app2" \/ canOpen))
        /\ (prog = "app3" /\ Count(slotTrace, "w") = 0) => onLog = "null"
        /\ "hello" \in performed => Count(slotTrace, "w") = 1

\* example3's main has returned 0: one write, then the reads of hello's log call.
C10_Witness ==
    prog = "app3" /\ pc = "done" /\ exitCode = 0 /\ slotTrace = <<"w", "r", "r">>

\* C11: in example3 the cpuCount slot always holds one of the two functions of
\* the program, the hardware query or the mock, whatever init, deinit and
\* initMock calls came before; so every call through it returns the hardware's
\* count or the mock's 512.
C11_SlotNeverNull ==
    prog \in {"test3", "app3"} =>
        /\ cpuCount \in {"cpuCountImpl", "mock"}
        /\ last.op = "cpuCount" => last.n \in {cpuCountImpl, cpuCountMock}

\* cpuCount is called after both deinit and initMock have run.
C11_Witness ==
    /\ prog = "test3"
    /\ {"deinit", "initMock"} \subseteq performed
    /\ last.op = "cpuCount"

C13_MockOverrides ==
    (prog = "test2" /\ mockOverride.current # "none") =>
        /\ sm_impl = mockOverride.current
        /\ last.op # "cpuCountUndefined"
        /\ last.op = "cpuCount" =>
                last.n = IF mockOverride.assigned = -1 THEN 1 ELSE mockOverride.assigned

\* cpuCount is called on a mock whose field was assigned 512.
C13_Witness ==
    /\ prog = "test2"
    /\ mockOverride.current # "none"
    /\ mockOverride.assigned = 512
    /\ last.op = "cpuCount"
    /\ last.n = 512

\* C14: the code registered with DEFER has not run while the scope is being
\* executed, or when the program ended inside it; once the scope has been left, by
\* reaching its end or by the return of a failing CHECK or TRY, it has run exactly
\* once, as the last effect before control is back at the caller.
C14_DeferRunsOnceAtExit ==
    prog = "texture" =>
        /\ pc # "returned" => Count(trace, "unmap") = 0
        /\ pc = "returned" =>
              /\ Count(trace, "unmap") = 1
              /\ Len(trace) >= 2
              /\ SubSeq(trace, Len(trace) - 1, Len(trace)) = <<"unmap", "return">>
              /\ deferers = <<>>

\* A failing CHECK has run the handler and returned, and the deferred code ran.
C14_Witness ==
    /\ prog = "texture" /\ pc = "returned"
    /\ frame.form = "CHECK1" /\ ~frame.cond
    /\ trace = <<"map", "body", "ERROR", "handler", "unmap", "return">>

\* C15 as stated: after a CHECK whose condition was false, the function has
\* logged an error, then run the handler if one was set, then returned the given
\* value, and nothing else; after one whose condition was true it has done none of
\* this and goes on with the statements after the CHECK.
C15_CheckBails ==
    (prog = "check" /\ frame.fn # "none" /\ pc # "check") =>
        IF frame.cond
        THEN /\ pc \in {"rest", "returned"}
             /\ trace = IF pc = "rest" THEN <<>> ELSE <<"rest", "return">>
        ELSE /\ pc = "returned"
             /\ trace = <<"ERROR">>
                            \o (IF frame.handler # "null" THEN <<"handler">> ELSE <<>>)
                            \o <<"return">>
             /\ frame.ret = Given(frame.fn)

\* C15, amended: the same, but a handler that terminates the application ends the
\* function after the log message and the handler, without a return.
C15_CheckBailsUnlessTerminated ==
    (prog = "check" /\ frame.fn # "none" /\ pc # "check") =>
        IF frame.cond
        THEN /\ pc \in {"rest", "returned"}
             /\ trace = IF pc = "rest" THEN <<>> ELSE <<"rest", "return">>
        ELSE IF frame.handler = "terminate"
        THEN /\ pc = "terminated"
             /\ trace = <<"ERROR", "handler">>
             /\ frame.ret = NoRet
        ELSE /\ pc = "returned"
             /\ trace = <<"ERROR">>
                            \o (IF frame.handler # "null" THEN <<"handler">> ELSE <<>>)
                            \o <<"return">>
             /\ frame.ret = Given(frame.fn)

\* createTexture's CHECK failed with a handler set that returns.
C15_Witness ==
    /\ prog = "check" /\ pc = "returned"
    /\ frame.fn = "createTexture" /\ ~frame.cond
    /\ frame.handler = "nothing"
    /\ trace = <<"ERROR", "handler", "return">>
    /\ frame.ret = StatusRet(Status(InvalidArgumentError))

\* C16: a Status tests true when its code is Ok and false for each of the other
\* six codes, and a Status made by default holds Ok.
C16_StatusBool ==
    (prog = "status" /\ frame.fn = "Status") =>
        /\ frame.status.code = Ok => frame.cond
        /\ frame.status.code \in StatusCodes \ {Ok} => ~frame.cond
        /\ frame.form = "default" => frame.status.code = Ok /\ frame.cond

\* A Status holding ReadError was tested.
C16_Witness ==
    /\ prog = "status" /\ frame.fn = "Status"
    /\ frame.status.code = ReadError
    /\ ~frame.cond

\* C17: AudioTrack::load goes on to use the data only after a load that
\* succeeded, and then returns Ok; after a load that failed it returns that very
\* status without using the data. So it returns Ok exactly when the load succeeded.
C17_TryBails ==
    (prog = "audio" /\ pc \in {"use", "returned"}) =>
        /\ pc = "use" => Status_bool(frame.status) /\ trace = <<>>
        /\ pc = "returned" =>
              /\ frame.ret.kind = "Status"
              /\ frame.status.code # Ok =>
                    /\ frame.ret.code = frame.status.code
                    /\ Count(trace, "use") = 0
              /\ frame.status.code = Ok =>
                    /\ frame.ret.code = Ok
                    /\ Count(trace, "use") = 1
              /\ frame.ret.code = Ok <=> frame.status.code = Ok

\* The first source lacks the file, the second fails to load it with WriteError,
\* and AudioTrack::load, written with TRY, has returned.
C17_Witness ==
    /\ prog = "audio" /\ pc = "returned"
    /\ frame.form = "TRY"
    /\ Len(m_sources) = 2 /\ ~m_sources[1].exists /\ m_sources[2].exists
    /\ frame.status.code = WriteError
    /\ frame.ret = StatusRet(Status(WriteError))

\* C18 as stated: after a log message was written to the log file, the file still
\* begins with what it held when the program started.
C18_KeepsEarlierRuns ==
    (last.op \in {"hello", "log"} /\ last.wroteDisk # <<>>) => IsPrefix(disk0, disk)

\* C18, amended: every step, a log call above all, only adds to the end of the log
\* file, but for the steps that open it (main's logger set-up, the creation of a
\* FileLogger): a successful open empties the file, a failed one leaves it alone.
C18_AppendsSinceOpen ==
    [][IF last'.op \in {"setUpLogger", "setLogger"}
       THEN disk' \in {disk, <<>>} /\ (~canOpen => disk' = disk)
       ELSE IsPrefix(disk, disk')]_vars

\* The file held a line of an earlier run; the program has written a second line
\* after its first, and the earlier run's line is gone.
C18_Witness ==
    /\ disk0 # <<>>
    /\ last.op = "log"
    /\ last.wroteDisk # <<>>
    /\ Len(disk) > Len(last.wroteDisk)
    /\ ~IsPrefix(disk0, disk)

\* C19: a call of hello changes neither the log-handler slot (onLog, g_logger and
\* the logger it owns, the stream g_logFile), nor the platform accessor slot
\* (cpuCount, sm_impl), nor the platform instance (g_platform, the mocks).
C19_HelloFrame ==
    [][last'.op = "hello" =>
          /\ onLog' = onLog
          /\ g_logFile' = g_logFile
          /\ g_logger'.kind = g_logger.kind
          /\ g_logger'.m_filename = g_logger.m_filename
          /\ cpuCount' = cpuCount
          /\ sm_impl' = sm_impl
          /\ g_platform' = g_platform
          /\ mocks' = mocks]_vars

\* hello has run in example2's app, with the platform initialized and the
\* FileLogger installed, and its message went to the log file.
C19_Witness ==
    /\ prog = "app2"
    /\ last.op = "hello"
    /\ last.wroteDisk # <<>>
    /\ g_logger.kind = "FileLogger"
    /\ sm_impl = "g_platform" /\ g_platform

\* C20: when main of the example app has returned, the platform it set up at its
\* start has been torn down: by deinit in example3, by finalize in example2, where
\* then no PlatformWin32 object is left.
C20_TornDownBeforeReturn ==
    (prog \in Apps /\ pc = "done") =>
        /\ prog = "app3" => "deinit" \in performed
        /\ prog = "app2" => "finalize" \in performed /\ ~g_platform

\* What a run of the app that exits 0 prints, in order: the platform's
\* initialization, the greeting, the CPU count, the platform's finalization.
GreetingLine ==
    LET name == IF argc >= 2 THEN argv[2] ELSE <<>>
    IN  (IF prog = "app3" THEN hello3(name) ELSE hello2(name)) \o <<"\n">>
CpuLineStart == <<"W","e"," ","a","r","e"," ","r","u","n","n","i","n","g"," ","o","n"," ">>
CpuLine == CpuLineStart \o ToDecimal(hw) \o <<" ","C","P","U","s",".","\n">>
FullOutput == <<InitializingText, GreetingLine, CpuLine, FinalizingText>>

\* The first n events of the full output.
RECURSIVE OutputUpTo(_)
OutputUpTo(n) == IF n = 0 THEN <<>> ELSE OutputUpTo(n - 1) \o FullOutput[n]

\* C21: in the example apps, as long as main has not returned 1, the output is the
\* first so many of the four events initialization, greeting, CPU count,
\* finalization, each whole and once; the hello message is in the log file once,
\* and it got there after the initialization and before the greeting was printed;
\* a run that exits 0 has produced all of them; a run that exits 1 has printed
\* neither the greeting nor a CPU count.
C21_EventOrder ==
    prog \in Apps =>
        /\ exitCode # 1 =>
              /\ \E n \in 0..4 : out = OutputUpTo(n)
              /\ Len(out) > Len(InitializingText) =>
                    Occurrences(HelloCalled, disk) = 1 /\ LineBreaks(disk) = 1
        /\ Occurrences(HelloCalled, disk) <= 1
        /\ Occurrences(HelloCalled, disk) = 1 => IsPrefix(InitializingText, out)
        /\ exitCode = 0 => out = OutputUpTo(4) /\ Occurrences(HelloCalled, disk) = 1
        /\ exitCode = 1 => ~IsInfix(GreetingLine, out) /\ ~IsInfix(CpuLineStart, out)

\* The app has exited 0 on a machine with more than one CPU, where the log file
\* held a line of an earlier run.
C21_Witness ==
    /\ prog \in Apps /\ exitCode = 0
    /\ hw > 1 /\ disk0 # <<>>
    /\ out = OutputUpTo(4)

\* A call of FileLogger::create has just returned: main's logger set-up in
\* example2, or a test's creation of a FileLogger.
JustCreated ==
    \/ prog = "app2" /\ last.op = "setUpLogger"
    \/ prog = "test2" /\ last.op = "setLogger" /\ last.name = LogFilename

\* C23: FileLogger::create has returned null if the file could not be opened and
\* otherwise a FileLogger whose filename() is the argument; and whenever g_logger
\* is a FileLogger, its file could be opened and it has that name.
C23_CreateNullIffNotOpened ==
    prog \in {"test2", "app2"} =>
        /\ g_logger.kind = "FileLogger" => canOpen /\ g_logger.m_filename = LogFilename
        /\ JustCreated =>
              IF canOpen
              THEN g_logger.kind = "FileLogger" /\ g_logger.m_filename = LogFilename
              ELSE g_logger.kind = "null"

\* A test called create where the file cannot be opened, while a logger of
\* another kind was installed, and got null.
C23_Witness ==
    /\ prog = "test2" /\ JustCreated
    /\ ~canOpen
    /\ last.slot \in {"ConsoleLogger", "MockLogger"}
    /\ g_logger = NullLogger

UsageStart == <<"u","s","a","g","e",":"," ">>
CouldNotCreate == <<"C","o","u","l","d"," ","n","o","t"," ","c","r","e","a","t","e"," ","l","o","g"," ","f","i","l","e">>

\* C25: main checks the arguments only after its logger set-up. So a run that
\* exits 1 where the log file can be created has a wrong argument count, has
\* printed the usage text, and leaves logfile.txt empty, whatever it held; and a
\* run where the file cannot be created exits 1 with the log-file error and
\* without the usage text, also when the argument count is wrong, the file as it
\* was.
C25_LoggerBeforeArgs ==
    prog \in Apps =>
        /\ "checkArgs" \in performed => "setUpLogger" \in performed /\ canOpen
        /\ (pc = "done" /\ exitCode = 1 /\ canOpen) =>
              /\ argc # 2
              /\ disk = <<>>
              /\ IsInfix(UsageStart, out) /\ ~IsInfix(CouldNotCreate, out)
        /\ (pc = "done" /\ ~canOpen) =>
              /\ exitCode = 1
              /\ disk = disk0
              /\ IsInfix(CouldNotCreate, out) /\ ~IsInfix(UsageStart, out)

\* A run with no name argument has exited 1; the log file, which held a line of
\* an earlier run, is empty.
C25_Witness ==
    /\ prog \in Apps /\ pc = "done" /\ exitCode = 1
    /\ argc = 1 /\ canOpen
    /\ disk0 # <<>> /\ disk = <<>>

\* C26: in example2 sm_impl is null or points to an object that is alive,
\* whatever initialize, finalize, mock constructions and destructions came before.
C26_NeverDangling ==
    prog \in {"test2", "app2"} =>
        \/ sm_impl = "null"
        \/ sm_impl = "g_platform" /\ g_platform
        \/ sm_impl \in MockIds /\ mocks[sm_impl].alive

\* A mock was created while another was alive, one of the two was destroyed
\* since, and sm_impl is null although a mock is still alive.
C26_Witness ==
    /\ prog = "test2"
    /\ last.op = "mockDtor"
    /\ \E id \in MockIds : mocks[id].alive
    /\ sm_impl = "null"

\* C27: the destruction of a MockPlatform leaves sm_impl null and the PlatformWin32
\* instance as it was, so null also when that instance exists; and sm_impl
\* stops being null only by initialize or by the construction of a mock.
C27_MockDtorNulls ==
    [][/\ last'.op = "mockDtor" => sm_impl' = "null" /\ g_platform' = g_platform
       /\ (sm_impl = "null" /\ sm_impl' # "null") => last'.op \in {"initialize", "mockCtor"}
      ]_vars

\* After initialize, a mock was constructed and destroyed: the PlatformWin32
\* instance exists and sm_impl is null.
C27_Witness ==
    /\ prog = "test2"
    /\ platformCall = "initialize" /\ g_platform
    /\ last.op = "mockDtor"
    /\ sm_impl = "null"

\* C28: in example3 a call of init or deinit leaves the cpuCount slot as it is;
\* the slot holds the real implementation until initMock has run and the mock
\* from then on, so that cpuCount() then returns 512.
C28_InitDeinitKeepSlot ==
    [][(prog \in {"test3", "app3"}) =>
          /\ last'.op \in {"init", "deinit"} => cpuCount' = cpuCount
          /\ "initMock" \notin performed' => cpuCount' = "cpuCountImpl"
          /\ "initMock" \in performed' =>
                /\ cpuCount' = "mock"
                /\ last'.op = "cpuCount" => last'.n = 512
      ]_vars

\* initMock ran, init after it, and cpuCount() was called then.
C28_Witness ==
    /\ prog = "test3"
    /\ {"initMock", "init"} \subseteq performed
    /\ last.op = "cpuCount" /\ last.n = 512
    /\ hw # 512

\* C29: the three implementations of hello return the same string for every
\* name; whichever of them a program calls, and whatever handler or logger is
\* installed then, the call returns what each of the three gives for the name.
C29_SameGreeting ==
    /\ \A name \in Names : hello1(name) = hello2(name) /\ hello2(name) = hello3(name)
    /\ last.op = "hello" =>
          /\ last.ret = hello1(last.name)
          /\ last.ret = hello2(last.name)
          /\ last.ret = hello3(last.name)

\* example2's hello was called with a name while a MockLogger was installed.
C29_Witness ==
    /\ prog = "test2"
    /\ last.op = "hello" /\ last.name = <<"T","i","m">>
    /\ last.slot = "MockLogger"
    /\ last.ret = hello3(<<"T","i","m">>)

\* C22: with the logging TRY, a failure that has propagated out of nested calls
\* left one log entry where the error was instantiated, in the deepest function,
\* and after it exactly one entry for each TRY it passed through, from the
\* innermost caller to the outermost, each printing the status that originated;
\* that status is the one the client receives.  Without a failure nothing is
\* logged.
C22_OneEntryPerTRY ==
    (prog = "nested" /\ pc = "returned") =>
        IF frame.ret = StatusRet(Status(Ok))
        THEN trace = <<>>
        ELSE /\ Len(trace) \in 1..MaxDepth
             /\ trace[1] = LogEntry(Len(trace), "origin", frame.ret.code)
             /\ \A i \in 2..Len(trace) :
                    trace[i] = LogEntry(Len(trace) - i + 1, "TRY", trace[1].code)
             /\ frame.ret.kind = "Status"

\* The log of the README: ReadError instantiated two calls below AudioTrack::load
\* has reached the client.
C22_Witness ==
    /\ prog = "nested" /\ pc = "returned"
    /\ trace = <<LogEntry(3, "origin", ReadError), LogEntry(2, "TRY", ReadError),
                 LogEntry(1, "TRY", ReadError)>>
    /\ frame.ret = StatusRet(Status(ReadError))

\* C30: a failing CHECK calls the value it read from g_checkHandler with its one
\* atomic load, whatever another thread stores meanwhile: it never calls a null
\* handler, the ERROR entry is written before the handler is looked at, and when
\* the load gave no handler the CHECK has logged and returns without a call.
C30_CallsWhatItLoaded ==
    prog = "race" =>
        LET c == threads["checker"]
        IN  /\ c.called # "null"
            /\ c.called \in {"none", c.seen}
            /\ "null" \notin {trace[i] : i \in DOMAIN trace}
            /\ c.pc # "idle" => (trace # <<>> /\ trace[1] = "ERROR")
            /\ (c.pc = "returned" /\ c.seen = "null") => trace = <<"ERROR", "return">>
            /\ (c.pc = "returned" /\ c.seen # "null") => trace = <<"ERROR", c.seen, "return">>
            /\ c.pc = "stopped" => trace = <<"ERROR", "terminate">>

\* The handler was cleared between the load and the call, and the CHECK has
\* called the handler it had loaded and returned.
C30_Witness ==
    /\ prog = "race"
    /\ threads["checker"].pc = "returned"
    /\ threads["checker"].seen = "nothing"
    /\ threads["checker"].called = "nothing"
    /\ g_checkHandler = "null"
    /\ trace = <<"ERROR", "nothing", "return">>

\* No handler was set when the CHECK loaded it: it has logged and returned.
C30_WitnessNoHandler ==
    /\ prog = "race"
    /\ threads["checker"].pc = "returned"
    /\ threads["checker"].seen = "null"
    /\ trace = <<"ERROR", "return">>

\* C24: without any lock, when the main thread writes onLog and cpuCount only
\* before it starts the other threads, no thread calling hello or cpuCount ever
\* calls a null callback: a thread that passed the test of EXAMPLE_LOG finds the
\* handler still installed, every call made and every message delivered went to
\* the handler installed, and cpuCount gave what the installed accessor gives.
C24_NoNullCallWithoutLock ==
    prog = "threads3" =>
        /\ pc # "crashed"
        /\ delivered # <<>> => delivered[1].handler = onLog
        /\ \A t \in DOMAIN threads :
              /\ threads[t].called # "null"
              /\ pc # "start" => threads[t].called \in {"none", onLog}
              /\ pc # "start" => threads[t].seen \in {"none", onLog}
              /\ threads[t].pc = "call" => onLog # "null"
              /\ threads[t].count \in {-1, CallCpuCount}

\* Two threads inside hello at once: one has called the handler and got the
\* mocked count, the other is between the test and the call of EXAMPLE_LOG.
C24_Witness ==
    /\ prog = "threads3" /\ pc = "running"
    /\ threads["t1"].called = "logToStdout"
    /\ threads["t1"].count = cpuCountMock
    /\ threads["t2"].pc = "call"
    /\ IsInfix(HelloCalled, out)

====
